---- MODULE Spec2Model ----
(***************************************************************************)
(* Model of the f3rva workout service: the data-access gateway             *)
(* (app/core/database.py), the lookup service                              *)
(* (app/services/workout_service.py) and the HTTP handlers                 *)
(* (app/api/workouts.py).                                                  *)
(*                                                                         *)
(* Python's None is written None where a row or a record is expected and   *)
(* NULL where a string column or field is expected.  Strings built by      *)
(* f-strings are built with \o, so that a message is a real string.        *)
(***************************************************************************)
EXTENDS Integers, Sequences, FiniteSets, TLC

VARIABLES store, process, pc, req, local, response, log, connection, outcome

vars == <<store, process, pc, req, local, response, log, connection, outcome>>

\* ------------------------------------------------------------------ bounds
\* Longest participant / activity-segment join table of a store.
MaxRows == 2

\* Request slots (one lightweight task per incoming request).
Reqs == {1, 2}

\* The slot that serves requests one after another in Spec and SpecMock.
Sequential == {1}

\* ------------------------------------------------------------ basic values
None == [isNone |-> TRUE]
NULL == "<None>"

NoConn == 0

\* Contents of the exceptions the driver can raise.
ExcContents == {"(2003) can't connect to MySQL server on 'db-host'",
                "(1045) access denied for user 'svc'"}

\* dict.get(key): the value, or None when the key is missing.
Get(row, key) == IF key \in DOMAIN row THEN row[key] ELSE NULL

SeqsUpTo(S, n) == UNION {[1..k -> S] : k \in 0..n}

\* ------------------------------------------------------------------- dates
IsLeap(y) == (y % 4 = 0) /\ ((y % 100 /= 0) \/ (y % 400 = 0))

\* DaysInMonth with a February of 28 days in every year.
DaysInMonth_NoLeap(y, m) ==
    IF m = 2 THEN 28
    ELSE IF m \in {4, 6, 9, 11} THEN 30 ELSE 31

DaysInMonth(y, m) ==
    IF m = 2 THEN (IF IsLeap(y) THEN 29 ELSE 28)
    ELSE IF m \in {4, 6, 9, 11} THEN 30 ELSE 31

\* date(year, month, day): the date, or the ValueError it raises
\* (the constructor accepts years MINYEAR..MAXYEAR = 1..9999).
Date(y, m, d) ==
    IF ~(1 <= y /\ y <= 9999)
    THEN [ok |-> FALSE, err |-> "year " \o ToString(y) \o " is out of range"]
    ELSE IF ~(1 <= m /\ m <= 12)
    THEN [ok |-> FALSE, err |-> "month must be in 1..12"]
    ELSE IF ~(1 <= d /\ d <= DaysInMonth(y, m))
    THEN [ok |-> FALSE, err |-> "day is out of range for month"]
    ELSE [ok |-> TRUE, value |-> [year |-> y, month |-> m, day |-> d]]

Pad(n, w) ==
    LET s == ToString(n)
    IN  IF Len(s) >= w THEN s
        ELSE IF Len(s) = w - 1 THEN "0" \o s
        ELSE IF Len(s) = w - 2 THEN "00" \o s
        ELSE "000" \o s

\* str(date): ISO format YYYY-MM-DD.
IsoFormat(dt) == Pad(dt.year, 4) \o "-" \o Pad(dt.month, 2) \o "-" \o Pad(dt.day, 2)

\* ------------------------------------------------------------------- store
\* The relational store the queries read.  workouts holds the session
\* headers; workout_pax and workout_aos hold the join rows, each already
\* joined to its pax / aos row and naming its workout by id.
D1 == [year |-> 2024, month |-> 1, day |-> 15]
D2 == [year |-> 2024, month |-> 2, day |-> 29]

WorkoutTables ==
    { \* (date, slug) unique
      << [id |-> 1, workout_date |-> D1, url_slug |-> "test-workout",
          qic_name |-> "Ripken", qic_f3_name |-> NULL],
         [id |-> 2, workout_date |-> D2, url_slug |-> "test-workout",
          qic_name |-> "Splinter", qic_f3_name |-> "Master Splinter"] >>,
      \* two headers share (date, slug)
      << [id |-> 1, workout_date |-> D1, url_slug |-> "test-workout",
          qic_name |-> "Ripken", qic_f3_name |-> NULL],
         [id |-> 2, workout_date |-> D1, url_slug |-> "test-workout",
          qic_name |-> "Splinter", qic_f3_name |-> "Master Splinter"] >>,
      \* a header whose leader name is NULL
      << [id |-> 1, workout_date |-> D1, url_slug |-> "test-workout",
          qic_name |-> NULL, qic_f3_name |-> NULL] >> }

PaxJoinRows ==
    { [workout_id |-> 1, pax_name |-> "Donatello", f3_name |-> NULL],
      [workout_id |-> 2, pax_name |-> "Leonardo", f3_name |-> "Leo"] }

AosJoinRows ==
    { [workout_id |-> 1, aos_name |-> "Warm-Up", description |-> "Getting ready"],
      [workout_id |-> 2, aos_name |-> "The Thang", description |-> NULL] }

StoreSet ==
    [workouts : WorkoutTables,
     workout_pax : SeqsUpTo(PaxJoinRows, MaxRows),
     workout_aos : SeqsUpTo(AosJoinRows, MaxRows)]

\* Rows the server can send back for the round-trip statement.
HealthReplies ==
    { << >>,
      << [status |-> 1] >>,
      << [status |-> 0] >>,
      << [one |-> 1] >>,
      << [status |-> 1], [status |-> 0] >>,
      << [status |-> 0], [status |-> 1] >> }

\* -------------------------------------------------------------- statements
workout_query(workout_date, url_slug) ==
    [verb |-> "SELECT", sql |-> "workout_query",
     params |-> [workout_date |-> workout_date, url_slug |-> url_slug]]

\* pax_query keyed by the date alone.
pax_query_DateOnly(workout_date, url_slug) ==
    [verb |-> "SELECT", sql |-> "pax_query",
     params |-> [workout_date |-> workout_date, url_slug |-> NULL]]

pax_query(workout_date, url_slug) ==
    [verb |-> "SELECT", sql |-> "pax_query",
     params |-> [workout_date |-> workout_date, url_slug |-> url_slug]]

\* aos_query as a statement that writes.
aos_query_Delete(workout_date, url_slug) ==
    [verb |-> "DELETE", sql |-> "aos_query",
     params |-> [workout_date |-> workout_date, url_slug |-> url_slug]]

aos_query(workout_date, url_slug) ==
    [verb |-> "SELECT", sql |-> "aos_query",
     params |-> [workout_date |-> workout_date, url_slug |-> url_slug]]

health_query == [verb |-> "SELECT", sql |-> "SELECT 1 as status", params |-> << >>]

\* The WHERE clause narrowed to the matching header of lowest id.
MatchingIds_FirstOnly(st, params) ==
    LET ids == { st.workouts[i].id : i \in
                   { j \in DOMAIN st.workouts :
                       /\ st.workouts[j].workout_date = params.workout_date
                       /\ st.workouts[j].url_slug = params.url_slug } }
    IN  { x \in ids : \A y \in ids : x <= y }

\* The WHERE clause without its url_slug condition.
MatchingIds_DateOnly(st, params) ==
    { st.workouts[i].id : i \in
        { j \in DOMAIN st.workouts :
            st.workouts[j].workout_date = params.workout_date } }

\* WHERE w.workout_date = %(workout_date)s AND w.url_slug = %(url_slug)s
MatchingIds(st, params) ==
    { st.workouts[i].id : i \in
        { j \in DOMAIN st.workouts :
            /\ st.workouts[j].workout_date = params.workout_date
            /\ st.workouts[j].url_slug = params.url_slug } }

\* The result sets the server can return for a statement: the header
\* statement has LIMIT 1 and no ORDER BY, so any one matching row; the two
\* join statements return every join row of every matching header, in the
\* order the table holds them.
ResultSets(st, stmt) ==
    IF stmt.sql = "workout_query"
    THEN LET hit == { i \in DOMAIN st.workouts :
                        st.workouts[i].id \in MatchingIds(st, stmt.params) }
         IN  IF hit = {} THEN { << >> }
             ELSE { << [workout_date |-> st.workouts[i].workout_date,
                        url_slug |-> st.workouts[i].url_slug,
                        qic_name |-> st.workouts[i].qic_name,
                        qic_f3_name |-> st.workouts[i].qic_f3_name] >> : i \in hit }
    ELSE IF stmt.sql = "pax_query"
    THEN LET sel == SelectSeq(st.workout_pax,
                      LAMBDA j : j.workout_id \in MatchingIds(st, stmt.params))
         IN  { [k \in DOMAIN sel |->
                  [pax_name |-> sel[k].pax_name, f3_name |-> sel[k].f3_name]] }
    ELSE IF stmt.sql = "aos_query"
    THEN LET sel == SelectSeq(st.workout_aos,
                      LAMBDA j : j.workout_id \in MatchingIds(st, stmt.params))
         IN  { [k \in DOMAIN sel |->
                  [aos_name |-> sel[k].aos_name, description |-> sel[k].description]] }
    ELSE HealthReplies

\* What the environment decides for one gateway call: where the transport
\* fails (if at all), what the exception says, and the rows sent back.
Faults == {"none", "connect", "execute", "fetchall"}

\* What rollback raises on a connection that was lost (InterfaceError).
RollbackExc == "(0, '')"

\* rollback_fails: the connection is gone when the rollback is attempted.
Envs(st, stmt) ==
    { e \in [fault : Faults, exc : ExcContents, rows : ResultSets(st, stmt),
             rollback_fails : BOOLEAN] :
        e.rollback_fails => e.fault \in {"execute", "fetchall"} }

\* What the server does to the store when it executes a statement: a
\* SELECT leaves it alone, anything else is a write (here: the matching
\* headers are deleted).  Connections are opened with autocommit, so a
\* later rollback undoes nothing.
ServerExecute(st, stmt) ==
    IF stmt.verb = "SELECT" THEN st
    ELSE [st EXCEPT !.workouts =
            SelectSeq(st.workouts,
                      LAMBDA w : w.id \notin MatchingIds(st, stmt.params))]

\* The store after one gateway call.
StoreAfter(st, stmt, env) ==
    IF env.fault \in {"connect", "execute"} THEN st ELSE ServerExecute(st, stmt)

\* ----------------------------------------------------------------- gateway
\* One entry of a manager's log: what was done, on which connection, for
\* which statement, whether it went through, and the rows it fetched.
Event(op, conn, stmt, ok, rows) ==
    [op |-> op, conn |-> conn, verb |-> stmt.verb, sql |-> stmt.sql,
     params |-> stmt.params, ok |-> ok, rows |-> rows]

\* DatabaseConnection.connect: sets self._connection and returns it, or
\* re-raises what the driver raised (self._connection is left as it was).
\* k is the identity of the connection the driver would hand out.
connect(conn, stmt, env, k) ==
    IF env.fault = "connect"
    THEN [raised |-> TRUE, exc |-> env.exc, connection |-> conn, value |-> NoConn,
          events |-> << Event("connect", NoConn, stmt, FALSE, << >>) >>]
    ELSE [raised |-> FALSE, exc |-> NULL, connection |-> k, value |-> k,
          events |-> << Event("connect", k, stmt, TRUE, << >>) >>]

\* DatabaseConnection.disconnect: closes and forgets self._connection.
disconnect(conn, stmt) ==
    IF conn /= NoConn
    THEN [connection |-> NoConn, events |-> << Event("close", conn, stmt, TRUE, << >>) >>]
    ELSE [connection |-> conn, events |-> << >>]

\* The body of the with statement of execute_query, on connection c.
CursorBody(c, stmt, env) ==
    IF env.fault = "execute"
    THEN [raised |-> TRUE, exc |-> env.exc, rows |-> << >>,
          events |-> << Event("execute", c, stmt, FALSE, << >>) >>]
    ELSE IF env.fault = "fetchall"
    THEN [raised |-> TRUE, exc |-> env.exc, rows |-> << >>,
          events |-> << Event("execute", c, stmt, TRUE, << >>),
                        Event("fetchall", c, stmt, FALSE, << >>) >>]
    ELSE [raised |-> FALSE, exc |-> NULL, rows |-> env.rows,
          events |-> << Event("execute", c, stmt, TRUE, << >>),
                        Event("fetchall", c, stmt, TRUE, env.rows) >>]

\* get_connection disconnecting after the yield instead of in a finally
\* clause: a body that raises leaves the connection open.
get_connection_NoFinally(conn, stmt, env, k) ==
    LET c == connect(conn, stmt, env, k)
    IN  IF c.raised
        THEN [raised |-> TRUE, exc |-> c.exc, rows |-> << >>,
              connection |-> c.connection, events |-> c.events]
        ELSE LET b  == CursorBody(c.value, stmt, env)
                 rb == IF b.raised
                       THEN << Event("rollback", c.value, stmt, ~env.rollback_fails, << >>) >>
                       ELSE << >>
                 d  == IF b.raised THEN [connection |-> c.connection, events |-> << >>]
                       ELSE disconnect(c.connection, stmt)
             IN  [raised |-> b.raised,
                  exc |-> IF b.raised /\ env.rollback_fails THEN RollbackExc ELSE b.exc,
                  rows |-> b.rows,
                  connection |-> d.connection,
                  events |-> c.events \o b.events \o rb \o d.events]

\* get_connection without the rollback of the except clause.
get_connection_NoRollback(conn, stmt, env, k) ==
    LET c == connect(conn, stmt, env, k)
    IN  IF c.raised
        THEN LET d == disconnect(c.connection, stmt)
             IN  [raised |-> TRUE, exc |-> c.exc, rows |-> << >>,
                  connection |-> d.connection, events |-> c.events \o d.events]
        ELSE LET b  == CursorBody(c.value, stmt, env)
                 d  == disconnect(c.connection, stmt)
             IN  [raised |-> b.raised, exc |-> b.exc, rows |-> b.rows,
                  connection |-> d.connection,
                  events |-> c.events \o b.events \o d.events]

\* DatabaseConnection.get_connection wrapped around the body: connect,
\* run the body, roll back if the body raised (what the rollback raises
\* replaces what the body raised), and disconnect in any case.
get_connection(conn, stmt, env, k) ==
    LET c == connect(conn, stmt, env, k)
    IN  IF c.raised
        THEN LET d == disconnect(c.connection, stmt)
             IN  [raised |-> TRUE, exc |-> c.exc, rows |-> << >>,
                  connection |-> d.connection, events |-> c.events \o d.events]
        ELSE LET b  == CursorBody(c.value, stmt, env)
                 rb == IF b.raised
                       THEN << Event("rollback", c.value, stmt, ~env.rollback_fails, << >>) >>
                       ELSE << >>
                 d  == disconnect(c.connection, stmt)
             IN  [raised |-> b.raised,
                  exc |-> IF b.raised /\ env.rollback_fails THEN RollbackExc ELSE b.exc,
                  rows |-> b.rows,
                  connection |-> d.connection,
                  events |-> c.events \o b.events \o rb \o d.events]

\* execute_query trying once more when the first attempt raised.
execute_query_Retry(conn, stmt, env, k) ==
    LET a == get_connection(conn, stmt, env, k)
    IN  IF ~a.raised THEN a
        ELSE LET b == get_connection(a.connection, stmt, env, k + 1)
             IN  [b EXCEPT !.events = a.events \o b.events]

\* DatabaseConnection.execute_query.
execute_query(conn, stmt, env, k) == get_connection(conn, stmt, env, k)

\* execute_single returning the last row instead of the first.
execute_single_LastRow(conn, stmt, env, k) ==
    LET q == execute_query(conn, stmt, env, k)
    IN  [raised |-> q.raised, exc |-> q.exc,
         value |-> IF q.raised \/ q.rows = << >> THEN None ELSE q.rows[Len(q.rows)],
         connection |-> q.connection, events |-> q.events]

\* DatabaseConnection.execute_single: results[0] if results else None.
execute_single(conn, stmt, env, k) ==
    LET q == execute_query(conn, stmt, env, k)
    IN  [raised |-> q.raised, exc |-> q.exc,
         value |-> IF q.raised \/ q.rows = << >> THEN None ELSE q.rows[1],
         connection |-> q.connection, events |-> q.events]

\* The identity of the next connection of manager m whose log is lg: the
\* manager and the ordinal of the connection among those it opened.
NextConn(m, lg) ==
    10 * m + 1 + Cardinality({ i \in DOMAIN lg : lg[i].op = "connect" /\ lg[i].ok })

\* ------------------------------------------------------------------ models
\* pydantic: a required str field rejects None with a ValidationError.
ValidationError(model) == "1 validation error for " \o model

PAXModel(name, f3_name) ==
    IF name = NULL THEN [ok |-> FALSE, err |-> ValidationError("PAXModel")]
    ELSE [ok |-> TRUE, value |-> [name |-> name, f3_name |-> f3_name]]

QICModel(name, f3_name) ==
    IF name = NULL THEN [ok |-> FALSE, err |-> ValidationError("QICModel")]
    ELSE [ok |-> TRUE, value |-> [name |-> name, f3_name |-> f3_name]]

AOSModel(name, description) ==
    IF name = NULL THEN [ok |-> FALSE, err |-> ValidationError("AOSModel")]
    ELSE [ok |-> TRUE, value |-> [name |-> name, description |-> description]]

WorkoutModel(workout_date, qic, pax, aos, url_slug) ==
    [workout_date |-> workout_date, qic |-> qic, pax |-> pax, aos |-> aos,
     url_slug |-> url_slug]

\* WorkoutRequest: the fields that violate their ge / le constraints.
WorkoutRequestErrors(year, month, day) ==
    (IF 2000 <= year /\ year <= 9999 THEN {} ELSE {"year"}) \cup
    (IF 1 <= month /\ month <= 12 THEN {} ELSE {"month"}) \cup
    (IF 1 <= day /\ day <= 31 THEN {} ELSE {"day"})

WorkoutResponse(success, message, data) ==
    [success |-> success, message |-> message, data |-> data]

\* An HTTP response: a status code with either the detail of an
\* HTTPException or the content of the returned value.
HTTPException(status_code, detail) ==
    [status |-> status_code, detail |-> detail, content |-> None]

Returned(content) == [status |-> 200, detail |-> NULL, content |-> content]

\* ----------------------------------------------------------------- service
\* How a call of the service ends.
Return(v) == [kind |-> "return", value |-> v, exc |-> NULL]
Raise(e) == [kind |-> "raise", value |-> None, exc |-> e]
NoOutcome == [kind |-> "none", value |-> None, exc |-> NULL]

\* PaxList building the list back to front.
PaxList_Reversed(pax_data) ==
    LET n == Len(pax_data)
        m == [i \in DOMAIN pax_data |->
                PAXModel(pax_data[n + 1 - i].pax_name, Get(pax_data[n + 1 - i], "f3_name"))]
    IN  IF \E i \in DOMAIN m : ~m[i].ok
        THEN Raise(ValidationError("PAXModel"))
        ELSE Return([i \in DOMAIN m |-> m[i].value])

\* The list comprehension of _get_pax_for_workout.
PaxList(pax_data) ==
    LET m == [i \in DOMAIN pax_data |->
                PAXModel(pax_data[i].pax_name, Get(pax_data[i], "f3_name"))]
    IN  IF \E i \in DOMAIN m : ~m[i].ok
        THEN Raise(ValidationError("PAXModel"))
        ELSE Return([i \in DOMAIN m |-> m[i].value])

\* The list comprehension of _get_aos_for_workout.
AosList(aos_data) ==
    LET m == [i \in DOMAIN aos_data |->
                AOSModel(aos_data[i].aos_name, Get(aos_data[i], "description"))]
    IN  IF \E i \in DOMAIN m : ~m[i].ok
        THEN Raise(ValidationError("AOSModel"))
        ELSE Return([i \in DOMAIN m |-> m[i].value])

\* Assemble with the two leader columns exchanged.
Assemble_SwapQic(workout_data, pax_list, aos_list) ==
    LET qic == QICModel(Get(workout_data, "qic_f3_name"), workout_data.qic_name)
    IN  IF ~qic.ok THEN Raise(qic.err)
        ELSE Return(WorkoutModel(workout_data.workout_date, qic.value,
                                 pax_list, aos_list, workout_data.url_slug))

\* The assembly at the end of get_workout_by_date_and_slug.
Assemble(workout_data, pax_list, aos_list) ==
    LET qic == QICModel(workout_data.qic_name, Get(workout_data, "qic_f3_name"))
    IN  IF ~qic.ok THEN Raise(qic.err)
        ELSE Return(WorkoutModel(workout_data.workout_date, qic.value,
                                 pax_list, aos_list, workout_data.url_slug))

\* HeaderStep without the "if not workout_data" return.
HeaderStep_NoAbsenceCheck(q) ==
    IF q.raised THEN [done |-> TRUE, outcome |-> Raise(q.exc)]
    ELSE [done |-> FALSE, workout_data |-> q.value]

\* get_workout_by_date_and_slug after the header statement: a raise and an
\* absent row end the lookup, a row goes on to the dependent statements.
HeaderStep(q) ==
    IF q.raised THEN [done |-> TRUE, outcome |-> Raise(q.exc)]
    ELSE IF q.value = None THEN [done |-> TRUE, outcome |-> Return(None)]
    ELSE [done |-> FALSE, workout_data |-> q.value]

\* PaxStep answering a failed statement with an empty list.
PaxStep_Swallow(q) == IF q.raised THEN Return(<< >>) ELSE PaxList(q.rows)

\* _get_pax_for_workout on what execute_query did.
PaxStep(q) == IF q.raised THEN Raise(q.exc) ELSE PaxList(q.rows)

\* _get_aos_for_workout on what execute_query did.
AosStep(q) == IF q.raised THEN Raise(q.exc) ELSE AosList(q.rows)

\* ServiceHealthCheck without the comparison of the status with 1.
ServiceHealthCheck_AnyRow(q) ==
    IF q.raised THEN Return(FALSE)
    ELSE Return(q.value /= None)

\* ServiceHealthCheck without the try / except.
ServiceHealthCheck_Propagate(q) ==
    IF q.raised THEN [kind |-> "raise", value |-> FALSE, exc |-> q.exc]
    ELSE Return(q.value /= None /\ "status" \in DOMAIN q.value /\ q.value.status = 1)

\* WorkoutService.health_check on what execute_single did.
ServiceHealthCheck(q) ==
    IF q.raised THEN Return(FALSE)
    ELSE Return(q.value /= None /\ "status" \in DOMAIN q.value /\ q.value.status = 1)

\* ---------------------------------------------------------------- handlers
\* get_workout_respond with a message that leaves the slug out.
get_workout_respond_NoSlug(workout_date, url_slug, o) ==
    IF o.kind = "raise"
    THEN HTTPException(500, "Internal server error")
    ELSE IF o.value = None
    THEN Returned(WorkoutResponse(FALSE,
            "No workout found for " \o IsoFormat(workout_date), None))
    ELSE Returned(WorkoutResponse(TRUE, "Workout data retrieved successfully", o.value))

\* get_workout_respond without the "if workout is None" branch.
get_workout_respond_NoNoneCheck(workout_date, url_slug, o) ==
    IF o.kind = "raise"
    THEN HTTPException(500, "Internal server error")
    ELSE Returned(WorkoutResponse(TRUE, "Workout data retrieved successfully", o.value))

\* get_workout after the date was built: the response for the way the
\* lookup ended.
get_workout_respond(workout_date, url_slug, o) ==
    IF o.kind = "raise"
    THEN HTTPException(500, "Internal server error")
    ELSE IF o.value = None
    THEN Returned(WorkoutResponse(FALSE,
            "No workout found for " \o IsoFormat(workout_date)
                \o " with slug '" \o url_slug \o "'",
            None))
    ELSE Returned(WorkoutResponse(TRUE, "Workout data retrieved successfully", o.value))

\* search_workout_respond putting the exception into the detail.
search_workout_respond_Leak(workout_date, url_slug, o) ==
    IF o.kind = "raise"
    THEN HTTPException(500, "Internal server error: " \o o.exc)
    ELSE IF o.value = None
    THEN Returned(WorkoutResponse(FALSE,
            "No workout found for " \o IsoFormat(workout_date)
                \o " with slug '" \o url_slug \o "'",
            None))
    ELSE Returned(WorkoutResponse(TRUE, "Workout data retrieved successfully", o.value))

\* search_workout after the date was built.
search_workout_respond(workout_date, url_slug, o) ==
    IF o.kind = "raise"
    THEN HTTPException(500, "Internal server error")
    ELSE IF o.value = None
    THEN Returned(WorkoutResponse(FALSE,
            "No workout found for " \o IsoFormat(workout_date)
                \o " with slug '" \o url_slug \o "'",
            None))
    ELSE Returned(WorkoutResponse(TRUE, "Workout data retrieved successfully", o.value))

\* get_workout_validate checking the month before the year.
get_workout_validate_MonthFirst(year, month, day) ==
    IF ~(1 <= month /\ month <= 12)
    THEN [ok |-> FALSE, response |-> HTTPException(400, "Month must be between 1 and 12")]
    ELSE IF ~(2000 <= year /\ year <= 9999)
    THEN [ok |-> FALSE, response |-> HTTPException(400, "Year must be between 2000 and 9999")]
    ELSE IF ~(1 <= day /\ day <= 31)
    THEN [ok |-> FALSE, response |-> HTTPException(400, "Day must be between 1 and 31")]
    ELSE LET dt == Date(year, month, day)
         IN  IF ~dt.ok
             THEN [ok |-> FALSE, response |-> HTTPException(400, "Invalid date: " \o dt.err)]
             ELSE [ok |-> TRUE, workout_date |-> dt.value]

\* get_workout up to the lookup: the 400 it raises, or the date it built.
get_workout_validate(year, month, day) ==
    IF ~(2000 <= year /\ year <= 9999)
    THEN [ok |-> FALSE, response |-> HTTPException(400, "Year must be between 2000 and 9999")]
    ELSE IF ~(1 <= month /\ month <= 12)
    THEN [ok |-> FALSE, response |-> HTTPException(400, "Month must be between 1 and 12")]
    ELSE IF ~(1 <= day /\ day <= 31)
    THEN [ok |-> FALSE, response |-> HTTPException(400, "Day must be between 1 and 31")]
    ELSE LET dt == Date(year, month, day)
         IN  IF ~dt.ok
             THEN [ok |-> FALSE, response |-> HTTPException(400, "Invalid date: " \o dt.err)]
             ELSE [ok |-> TRUE, workout_date |-> dt.value]

\* search_workout_validate on a request model without field constraints.
search_workout_validate_NoEnvelope(year, month, day) ==
    LET dt == Date(year, month, day)
    IN  IF ~dt.ok
        THEN [ok |-> FALSE, response |-> HTTPException(400, "Invalid date: " \o dt.err)]
        ELSE [ok |-> TRUE, workout_date |-> dt.value]

\* search_workout_validate building the date inside the try block of the
\* lookup, so that its ValueError becomes a 500.
search_workout_validate_DateInLookupTry(year, month, day) ==
    IF WorkoutRequestErrors(year, month, day) /= {}
    THEN [ok |-> FALSE, response |-> HTTPException(422, "Unprocessable Entity")]
    ELSE LET dt == Date(year, month, day)
         IN  IF ~dt.ok
             THEN [ok |-> FALSE, response |-> HTTPException(500, "Internal server error")]
             ELSE [ok |-> TRUE, workout_date |-> dt.value]

\* search_workout up to the lookup: the 422 of the request envelope, the
\* 400 of the handler, or the date it built.
search_workout_validate(year, month, day) ==
    IF WorkoutRequestErrors(year, month, day) /= {}
    THEN [ok |-> FALSE, response |-> HTTPException(422, "Unprocessable Entity")]
    ELSE LET dt == Date(year, month, day)
         IN  IF ~dt.ok
             THEN [ok |-> FALSE, response |-> HTTPException(400, "Invalid date: " \o dt.err)]
             ELSE [ok |-> TRUE, workout_date |-> dt.value]

\* health_check_respond answering 503 whenever the check was not true.
health_check_respond_UnhealthyIs503(o) ==
    IF o.kind = "raise" \/ ~o.value
    THEN HTTPException(503, "Service unavailable")
    ELSE Returned([status |-> "healthy",
                   service |-> "f3rva-workout-service",
                   database |-> "connected"])

\* The health handler on the way the check ended.
health_check_respond(o) ==
    IF o.kind = "raise"
    THEN HTTPException(503, "Service unavailable")
    ELSE Returned([status |-> IF o.value THEN "healthy" ELSE "unhealthy",
                   service |-> "f3rva-workout-service",
                   database |-> IF o.value THEN "connected" ELSE "disconnected"])

\* ---------------------------------------------------------------- settings
\* Values of the LOG_LEVEL variable of the process environment.
LogLevels == {"INFO", "DEBUG"}

NoSettings == [isNone |-> TRUE]

\* Settings(): the fields are read from the environment when the object
\* is constructed.
Settings(environ) == [app_name |-> "F3RVA Workout Service", log_level |-> environ]

\* get_settings without the lru_cache decorator.
get_settings_Uncached(p) ==
    [p EXCEPT !.settings = Settings(p.environ), !.inits = @ + 1]

\* get_settings under lru_cache: the first call constructs the Settings
\* object, every later call returns that object.  The result is the
\* process after the call; the value returned is its settings field.
get_settings(p) ==
    IF p.settings = NoSettings
    THEN [p EXCEPT !.settings = Settings(p.environ), !.inits = @ + 1]
    ELSE p

\* get_workout_service handing out one manager for every request.
get_workout_service_Shared(r) == 1

\* get_workout_service: a new DatabaseConnection manager for every
\* request; the manager is named after the request it was made for.
get_workout_service(r) == r

\* ------------------------------------------------------------------- state
\* Request inputs.
Years == {1999, 2000, 2023, 2024, 2100, 10000}
Months == {0, 1, 2, 4, 13}
Days == {0, 15, 29, 30, 31, 32}
Slugs == {"test-workout", "nonexistent"}

NoService == 0

NoReq == [endpoint |-> "none", year |-> 0, month |-> 0, day |-> 0, url_slug |-> NULL]
NoLocal == [workout_service |-> NoService, workout_date |-> None, url_slug |-> NULL,
            workout_data |-> None, pax_list |-> << >>, result |-> None]
NoResponse == [status |-> 0, detail |-> NULL, content |-> None]

\* Everything but the store and the environment, before app.main is
\* imported.
InitProcess(environ) ==
    /\ process = [environ |-> environ, settings |-> NoSettings, inits |-> 0,
                  phase |-> "import"]
    /\ pc = [r \in Reqs |-> "idle"]
    /\ req = [r \in Reqs |-> NoReq]
    /\ local = [r \in Reqs |-> NoLocal]
    /\ response = [r \in Reqs |-> NoResponse]
    /\ log = [r \in Reqs |-> << >>]
    /\ connection = [m \in Reqs |-> NoConn]
    /\ outcome = [r \in Reqs |-> NoOutcome]

Init ==
    /\ store \in StoreSet
    /\ InitProcess("INFO")

\* app.main is imported: create_app reads the settings.
CreateApp ==
    /\ process.phase = "import"
    /\ process' = [get_settings(process) EXCEPT !.phase = "created"]
    /\ UNCHANGED <<store, pc, req, local, response, log, connection, outcome>>

\* The server runs the lifespan startup: setup_logging reads the settings.
Lifespan ==
    /\ process.phase = "created"
    /\ process' = [get_settings(process) EXCEPT !.phase = "serving"]
    /\ UNCHANGED <<store, pc, req, local, response, log, connection, outcome>>

\* The Lambda handler wraps the app with lifespan="off": requests are
\* served without the startup.
Mangum ==
    /\ process.phase = "created"
    /\ process' = [process EXCEPT !.phase = "serving"]
    /\ UNCHANGED <<store, pc, req, local, response, log, connection, outcome>>

\* The handler of request r answers without calling the service.
Reject(r, resp) ==
    /\ response' = [response EXCEPT ![r] = resp]
    /\ pc' = [pc EXCEPT ![r] = "done"]
    /\ local' = [local EXCEPT ![r].workout_service = get_workout_service(r)]
    /\ UNCHANGED outcome

\* The handler of request r goes on to the lookup with the date it built.
Proceed(r, workout_date, url_slug) ==
    /\ local' = [local EXCEPT ![r] =
                    [NoLocal EXCEPT !.workout_service = get_workout_service(r),
                                    !.workout_date = workout_date,
                                    !.url_slug = url_slug]]
    /\ pc' = [pc EXCEPT ![r] = "lookup"]
    /\ UNCHANGED <<response, outcome>>

\* The lookup of request r ended with o: the handler builds the response.
Complete(r, o) ==
    /\ outcome' = [outcome EXCEPT ![r] = o]
    /\ response' = [response EXCEPT ![r] =
          IF req[r].endpoint = "get_workout"
          THEN get_workout_respond(local[r].workout_date, local[r].url_slug, o)
          ELSE search_workout_respond(local[r].workout_date, local[r].url_slug, o)]
    /\ pc' = [pc EXCEPT ![r] = "done"]
    /\ UNCHANGED local

\* GET /workouts/{year}/{month}/{day}/{url_slug} arrives: get_workout runs
\* up to its first await.
GetWorkout(r) ==
    /\ process.phase = "serving"
    /\ pc[r] = "idle"
    /\ \E year \in Years, month \in Months, day \in Days, url_slug \in Slugs :
         /\ req' = [req EXCEPT ![r] = [endpoint |-> "get_workout", year |-> year,
                        month |-> month, day |-> day, url_slug |-> url_slug]]
         /\ LET v == get_workout_validate(year, month, day)
            IN  IF v.ok THEN Proceed(r, v.workout_date, url_slug)
                ELSE Reject(r, v.response)
    /\ UNCHANGED <<store, log, connection, process>>

\* POST /workouts/search arrives: the envelope is validated and
\* search_workout runs up to its first await.
SearchWorkout(r) ==
    /\ process.phase = "serving"
    /\ pc[r] = "idle"
    /\ \E year \in Years, month \in Months, day \in Days, url_slug \in Slugs :
         /\ req' = [req EXCEPT ![r] = [endpoint |-> "search_workout", year |-> year,
                        month |-> month, day |-> day, url_slug |-> url_slug]]
         /\ LET v == search_workout_validate(year, month, day)
            IN  IF v.ok THEN Proceed(r, v.workout_date, url_slug)
                ELSE Reject(r, v.response)
    /\ UNCHANGED <<store, log, connection, process>>

\* GET /health arrives.
HealthCheck(r) ==
    /\ process.phase = "serving"
    /\ pc[r] = "idle"
    /\ req' = [req EXCEPT ![r] = [NoReq EXCEPT !.endpoint = "health_check"]]
    /\ local' = [local EXCEPT ![r].workout_service = get_workout_service(r)]
    /\ pc' = [pc EXCEPT ![r] = "health"]
    /\ UNCHANGED <<store, response, log, connection, outcome, process>>

\* One gateway call of request r on its manager m went as q says.
Gateway(r, m, stmt, env, q) ==
    /\ connection' = [connection EXCEPT ![m] = q.connection]
    /\ log' = [log EXCEPT ![r] = @ \o q.events]
    /\ store' = StoreAfter(store, stmt, env)

\* get_workout_by_date_and_slug, the header statement: a raise and an
\* absent row end the lookup, a row goes on to the participants.
HeaderQuery(r) ==
    /\ pc[r] = "lookup"
    /\ LET stmt == workout_query(local[r].workout_date, local[r].url_slug)
           m == local[r].workout_service
       IN  \E env \in Envs(store, stmt) :
             LET q == execute_single(connection[m], stmt, env, NextConn(m, log[r]))
                 h == HeaderStep(q)
             IN  /\ Gateway(r, m, stmt, env, q)
                 /\ IF h.done THEN Complete(r, h.outcome)
                    ELSE /\ local' = [local EXCEPT ![r].workout_data = h.workout_data]
                         /\ pc' = [pc EXCEPT ![r] = "pax"]
                         /\ UNCHANGED <<response, outcome>>
    /\ UNCHANGED <<req, process>>

\* _get_pax_for_workout.
PaxQuery(r) ==
    /\ pc[r] = "pax"
    /\ LET stmt == pax_query(local[r].workout_date, local[r].url_slug)
           m == local[r].workout_service
       IN  \E env \in Envs(store, stmt) :
             LET q == execute_query(connection[m], stmt, env, NextConn(m, log[r]))
                 pax_list == PaxStep(q)
             IN  /\ Gateway(r, m, stmt, env, q)
                 /\ IF pax_list.kind = "raise" THEN Complete(r, pax_list)
                    ELSE /\ local' = [local EXCEPT ![r].pax_list = pax_list.value]
                         /\ pc' = [pc EXCEPT ![r] = "aos"]
                         /\ UNCHANGED <<response, outcome>>
    /\ UNCHANGED <<req, process>>

\* _get_aos_for_workout and the assembly of the record.
AosQuery(r) ==
    /\ pc[r] = "aos"
    /\ LET stmt == aos_query(local[r].workout_date, local[r].url_slug)
           m == local[r].workout_service
       IN  \E env \in Envs(store, stmt) :
             LET q == execute_query(connection[m], stmt, env, NextConn(m, log[r]))
                 aos_list == AosStep(q)
             IN  /\ Gateway(r, m, stmt, env, q)
                 /\ IF aos_list.kind = "raise" THEN Complete(r, aos_list)
                    ELSE Complete(r, Assemble(local[r].workout_data,
                                              local[r].pax_list, aos_list.value))
    /\ UNCHANGED <<req, process>>

\* WorkoutService.health_check and the rest of the health handler.
HealthQuery(r) ==
    /\ pc[r] = "health"
    /\ LET m == local[r].workout_service
       IN  \E env \in Envs(store, health_query) :
             LET q == execute_single(connection[m], health_query, env, NextConn(m, log[r]))
                 o == ServiceHealthCheck(q)
             IN  /\ Gateway(r, m, health_query, env, q)
                 /\ local' = [local EXCEPT ![r].result = q.value]
                 /\ outcome' = [outcome EXCEPT ![r] = o]
                 /\ response' = [response EXCEPT ![r] = health_check_respond(o)]
                 /\ pc' = [pc EXCEPT ![r] = "done"]
    /\ UNCHANGED <<req, process>>

\* The response of request r is sent; its service, manager and locals are
\* dropped with it.
Finish(r) ==
    /\ pc[r] = "done"
    /\ pc' = [pc EXCEPT ![r] = "idle"]
    /\ req' = [req EXCEPT ![r] = NoReq]
    /\ local' = [local EXCEPT ![r] = NoLocal]
    /\ response' = [response EXCEPT ![r] = NoResponse]
    /\ log' = [log EXCEPT ![r] = << >>]
    /\ connection' = [connection EXCEPT ![local[r].workout_service] = NoConn]
    /\ outcome' = [outcome EXCEPT ![r] = NoOutcome]
    /\ UNCHANGED <<store, process>>

Next ==
    \/ CreateApp
    \/ Lifespan
    \/ Mangum
    \/ \E r \in Sequential :
        \/ GetWorkout(r)
        \/ SearchWorkout(r)
        \/ HealthCheck(r)
        \/ HeaderQuery(r)
        \/ PaxQuery(r)
        \/ AosQuery(r)
        \/ HealthQuery(r)
        \/ Finish(r)

Spec == Init /\ [][Next]_vars

\* ------------------------------------------------- handlers on a mocked service
\* The handlers take the service as a dependency; here it is replaced by a
\* mock that returns or raises whatever it is told to.
MockWorkouts ==
    { WorkoutModel(D1, [name |-> "Ripken", f3_name |-> NULL],
                   << [name |-> "Donatello", f3_name |-> NULL],
                      [name |-> "Leonardo", f3_name |-> NULL] >>,
                   << [name |-> "Warm-Up", description |-> NULL],
                      [name |-> "The Thang", description |-> NULL] >>,
                   "test-workout"),
      WorkoutModel(D2, [name |-> "Splinter", f3_name |-> "Master Splinter"],
                   << >>, << >>, "nonexistent") }

MockExcContents == ExcContents \cup {"Database error"}

MockLookupOutcomes ==
    {Return(None)} \cup {Return(w) : w \in MockWorkouts}
        \cup {Raise(e) : e \in ExcContents \cup {"Database error"}}

\* The mocked health_check returns or raises.
MockHealthDone(r, o) ==
    /\ outcome' = [outcome EXCEPT ![r] = o]
    /\ response' = [response EXCEPT ![r] = health_check_respond(o)]
    /\ pc' = [pc EXCEPT ![r] = "done"]

MockLookup(r) ==
    /\ pc[r] = "lookup"
    /\ \E o \in MockLookupOutcomes : Complete(r, o)
    /\ UNCHANGED <<store, req, log, connection, process>>

MockHealth(r) ==
    /\ pc[r] = "health"
    /\ \/ \E b \in BOOLEAN : MockHealthDone(r, Return(b))
       \/ \E e \in MockExcContents : MockHealthDone(r, Raise(e))
    /\ UNCHANGED <<store, req, local, log, connection, process>>

NextMock ==
    \/ CreateApp
    \/ Lifespan
    \/ Mangum
    \/ \E r \in Sequential :
        \/ GetWorkout(r)
        \/ SearchWorkout(r)
        \/ HealthCheck(r)
        \/ MockLookup(r)
        \/ MockHealth(r)
        \/ Finish(r)

SpecMock == Init /\ [][NextMock]_vars

\* ------------------------------------------------- requests handled together
\* Two requests in flight at once, on stores and inputs small enough to
\* interleave every step of one with every step of the other.
ConcStores ==
    { \* (date, slug) unique, two headers on one date
      [workouts |->
          << [id |-> 1, workout_date |-> D1, url_slug |-> "test-workout",
              qic_name |-> "Ripken", qic_f3_name |-> NULL],
             [id |-> 2, workout_date |-> D1, url_slug |-> "second-workout",
              qic_name |-> "Splinter", qic_f3_name |-> "Master Splinter"] >>,
       workout_pax |->
          << [workout_id |-> 1, pax_name |-> "Donatello", f3_name |-> NULL],
             [workout_id |-> 2, pax_name |-> "Leonardo", f3_name |-> "Leo"] >>,
       workout_aos |->
          << [workout_id |-> 1, aos_name |-> "Warm-Up", description |-> "Getting ready"] >>],
      \* two headers share (date, slug)
      [workouts |->
          << [id |-> 1, workout_date |-> D1, url_slug |-> "test-workout",
              qic_name |-> "Ripken", qic_f3_name |-> NULL],
             [id |-> 2, workout_date |-> D1, url_slug |-> "test-workout",
              qic_name |-> "Splinter", qic_f3_name |-> "Master Splinter"] >>,
       workout_pax |-> << >>,
       workout_aos |-> << >>] }

\* The requests sent: the date of the stored headers and a day no month
\* has, with either slug.
ConcReq(q) ==
    /\ q.year = D1.year /\ q.month = D1.month
    /\ q.day \in {D1.day, 32}

InitConc ==
    /\ store \in ConcStores
    /\ \E environ \in LogLevels : InitProcess(environ)

\* LOG_LEVEL is changed in the environment of the running process.
SetEnviron ==
    /\ \E environ \in LogLevels \ {process.environ} :
         process' = [process EXCEPT !.environ = environ]
    /\ UNCHANGED <<store, pc, req, local, response, log, connection, outcome>>

ConcGetWorkout(r) == GetWorkout(r) /\ ConcReq(req'[r])

ConcSearchWorkout(r) == SearchWorkout(r) /\ ConcReq(req'[r])

NextConc ==
    \/ CreateApp
    \/ Lifespan
    \/ Mangum
    \/ SetEnviron
    \/ \E r \in Reqs :
        \/ ConcGetWorkout(r)
        \/ ConcSearchWorkout(r)
        \/ HealthCheck(r)
        \/ HeaderQuery(r)
        \/ PaxQuery(r)
        \/ AosQuery(r)
        \/ HealthQuery(r)
        \/ Finish(r)

SpecConc == InitConc /\ [][NextConc]_vars

\* ============================================================== properties
Done(r) == pc[r] = "done"

IsLookup(r) == req[r].endpoint \in {"get_workout", "search_workout"}

\* Statement sql was sent to the gateway by request r.
Issued(r, sql) == \E i \in DOMAIN log[r] : log[r][i].sql = sql

\* Request r fetched the rows of statement sql.
Fetched(r, sql) ==
    \E i \in DOMAIN log[r] :
        log[r][i].sql = sql /\ log[r][i].op = "fetchall" /\ log[r][i].ok

\* The rows request r fetched for statement sql.
FetchedRows(r, sql) ==
    log[r][CHOOSE i \in DOMAIN log[r] :
              log[r][i].sql = sql /\ log[r][i].op = "fetchall" /\ log[r][i].ok].rows

\* A transport failure happened in a gateway call of request r.
GatewayFailed(r) == \E i \in DOMAIN log[r] : ~log[r][i].ok

OutOfBounds(q) ==
    ~(2000 <= q.year /\ q.year <= 9999) \/ ~(1 <= q.month /\ q.month <= 12)
        \/ ~(1 <= q.day /\ q.day <= 31)

\* The Gregorian calendar, written out as a table.
MonthLengths == <<31, 28, 31, 30, 31, 30, 31, 31, 30, 31, 30, 31>>

RealDate(q) ==
    /\ q.month \in 1..12
    /\ q.day >= 1
    /\ \/ q.day <= MonthLengths[q.month]
       \/ /\ q.month = 2 /\ q.day = 29
          /\ q.year % 4 = 0
          /\ (q.year % 100 = 0 => q.year % 400 = 0)

\* C1: when the header statement yields no row, the lookup returns None and
\* neither the participant nor the activity-segment statement is issued.
C1_AbsentHeaderReturnsNone ==
    \A r \in Reqs :
        (Fetched(r, "workout_query") /\ FetchedRows(r, "workout_query") = << >>)
            => /\ outcome[r] = Return(None)
               /\ ~Issued(r, "pax_query")
               /\ ~Issued(r, "aos_query")

C1_Witness ==
    \E r \in Reqs :
        /\ Fetched(r, "workout_query") /\ FetchedRows(r, "workout_query") = << >>
        /\ Done(r)
        /\ store.workout_pax /= << >> /\ store.workout_aos /= << >>

\* C2: the record's pax and aos sequences are the rows of their statements
\* mapped one to one in the same order, duplicates kept; an empty result
\* gives an empty sequence.
C2_SequencesPreserveOrder ==
    \A r \in Reqs :
        (Done(r) /\ IsLookup(r) /\ outcome[r].kind = "return" /\ outcome[r].value /= None)
            => LET w  == outcome[r].value
                   pr == FetchedRows(r, "pax_query")
                   ar == FetchedRows(r, "aos_query")
               IN  /\ Fetched(r, "pax_query") /\ Fetched(r, "aos_query")
                   /\ DOMAIN w.pax = 1..Len(pr)
                   /\ \A i \in 1..Len(pr) :
                        w.pax[i] = [name |-> pr[i].pax_name, f3_name |-> pr[i].f3_name]
                   /\ DOMAIN w.aos = 1..Len(ar)
                   /\ \A i \in 1..Len(ar) :
                        w.aos[i] = [name |-> ar[i].aos_name,
                                    description |-> ar[i].description]

C2_Witness ==
    \E r \in Reqs :
        /\ Done(r) /\ IsLookup(r) /\ outcome[r].kind = "return"
        /\ outcome[r].value /= None
        /\ Len(outcome[r].value.pax) = 2
        /\ outcome[r].value.pax[1] /= outcome[r].value.pax[2]
        /\ outcome[r].value.aos = << >>

\* C3: an envelope with success = true carries a record, one with
\* success = false carries no record and a non-empty message, and a record
\* is carried only if the header statement of that request returned a row.
C3_EnvelopeInvariant ==
    \A r \in Reqs :
        (Done(r) /\ IsLookup(r) /\ response[r].status = 200)
            => LET c == response[r].content
               IN  /\ c.success => c.data /= None
                   /\ ~c.success => (c.data = None /\ c.message /= NULL /\ Len(c.message) > 0)
                   /\ c.data /= None =>
                        (Fetched(r, "workout_query")
                            /\ Len(FetchedRows(r, "workout_query")) > 0)

C3_Witness ==
    \E r \in Reqs :
        /\ Done(r) /\ IsLookup(r) /\ response[r].status = 200
        /\ ~response[r].content.success
        /\ response[r].content.data = None

\* C4: an out-of-bounds triple on the path endpoint is answered 400 with
\* the message of the first out-of-bounds field in the order year, month,
\* day, and the lookup service is not called.
C4_PathBoundsInOrder ==
    \A r \in Reqs :
        (req[r].endpoint = "get_workout" /\ OutOfBounds(req[r]))
            => /\ Done(r)
               /\ response[r].status = 400
               /\ response[r].detail =
                    (IF ~(2000 <= req[r].year /\ req[r].year <= 9999)
                     THEN "Year must be between 2000 and 9999"
                     ELSE IF ~(1 <= req[r].month /\ req[r].month <= 12)
                     THEN "Month must be between 1 and 12"
                     ELSE "Day must be between 1 and 31")
               /\ outcome[r] = NoOutcome
               /\ log[r] = << >>

C4_Witness ==
    \E r \in Reqs :
        /\ req[r].endpoint = "get_workout" /\ Done(r)
        /\ req[r].year = 10000 /\ req[r].month = 13 /\ req[r].day = 32
        /\ response[r].detail = "Year must be between 2000 and 9999"

\* C5: an in-bounds triple that is not a calendar date is answered 400 with
\* a detail containing "Invalid date" by both endpoints, and no gateway
\* query is issued.
C5_InvalidCalendarDate ==
    \A r \in Reqs :
        (IsLookup(r) /\ ~OutOfBounds(req[r]) /\ ~RealDate(req[r]))
            => /\ Done(r)
               /\ response[r].status = 400
               /\ SubSeq(response[r].detail, 1, 12) = "Invalid date"
               /\ outcome[r] = NoOutcome
               /\ log[r] = << >>

C5_Witness ==
    \E r \in Reqs :
        /\ req[r].endpoint = "search_workout" /\ Done(r)
        /\ req[r].year = 2024 /\ req[r].month = 2 /\ req[r].day = 30
        /\ response[r].status = 400

\* C6: for a valid date the path endpoint answers an absent lookup result
\* with 200, success = false, no data and the "No workout found" message
\* built from the requested date and slug, and a record with 200,
\* success = true and exactly that record as data.
C6_PathMapsLookupResult ==
    \A r \in Reqs :
        (Done(r) /\ req[r].endpoint = "get_workout" /\ outcome[r].kind = "return")
            => /\ response[r].status = 200
               /\ IF outcome[r].value = None
                  THEN /\ response[r].content.success = FALSE
                       /\ response[r].content.data = None
                       /\ response[r].content.message =
                            "No workout found for "
                                \o IsoFormat([year |-> req[r].year, month |-> req[r].month,
                                              day |-> req[r].day])
                                \o " with slug '" \o req[r].url_slug \o "'"
                  ELSE /\ response[r].content.success = TRUE
                       /\ response[r].content.data = outcome[r].value

C6_Witness ==
    \E r \in Reqs :
        /\ Done(r) /\ req[r].endpoint = "get_workout" /\ outcome[r] = Return(None)
        /\ req[r].year = 2024 /\ req[r].month = 1 /\ req[r].day = 15
        /\ req[r].url_slug = "nonexistent"
        /\ response[r].content.message
             = "No workout found for 2024-01-15 with slug 'nonexistent'"

\* C7: whenever the lookup raises, the response is 500 with the detail
\* "Internal server error" and nothing else; the response is the same
\* whatever the exception says, so two runs that differ only in the
\* exception get identical responses.
C7_GenericServerError ==
    \A r \in Reqs :
        (Done(r) /\ IsLookup(r) /\ outcome[r].kind = "raise")
            => response[r] = [status |-> 500, detail |-> "Internal server error",
                              content |-> None]

C7_Witness ==
    \E r \in Reqs :
        /\ Done(r) /\ req[r].endpoint = "search_workout"
        /\ outcome[r].kind = "raise"
        /\ outcome[r].exc = "(1045) access denied for user 'svc'"
        /\ response[r].status = 500

\* The round trip of a finished health request came back with rows whose
\* first row has status 1.
FirstRowHealthy(r) ==
    /\ Fetched(r, "SELECT 1 as status")
    /\ LET rows == FetchedRows(r, "SELECT 1 as status")
       IN  /\ Len(rows) >= 1
           /\ "status" \in DOMAIN rows[1]
           /\ rows[1].status = 1

\* C8 as stated: health_check returns true iff the round trip returns
\* exactly one row whose status is 1.
C8_ExactlyOneRow ==
    \A r \in Reqs :
        (Done(r) /\ req[r].endpoint = "health_check")
            => /\ outcome[r].kind = "return"
               /\ outcome[r].value <=>
                    (FirstRowHealthy(r) /\ Len(FetchedRows(r, "SELECT 1 as status")) = 1)

\* C8 amended: health_check returns true iff the round trip returns at
\* least one row and the status of the first row is 1; on a gateway error,
\* no row, or a first row whose status is missing or not 1 it returns
\* false; it never raises.
C8_FirstRowStatus ==
    \A r \in Reqs :
        (Done(r) /\ req[r].endpoint = "health_check")
            => /\ outcome[r].kind = "return"
               /\ outcome[r].value <=> FirstRowHealthy(r)
               /\ GatewayFailed(r) => ~outcome[r].value

C8_Witness ==
    \E r \in Reqs :
        /\ Done(r) /\ req[r].endpoint = "health_check"
        /\ Fetched(r, "SELECT 1 as status")
        /\ FetchedRows(r, "SELECT 1 as status") = << [status |-> 1], [status |-> 0] >>
        /\ outcome[r] = Return(TRUE)

\* C9: GET /health answers 200 whenever the check returns a boolean, with
\* "healthy" / "connected" iff it returned true and "unhealthy" /
\* "disconnected" iff it returned false, and 503 "Service unavailable"
\* exactly when the check raises.
C9_HealthEndpoint ==
    \A r \in Reqs :
        (Done(r) /\ req[r].endpoint = "health_check")
            => /\ outcome[r].kind = "return" =>
                    /\ response[r].status = 200
                    /\ response[r].content.status = "healthy" <=> outcome[r].value
                    /\ response[r].content.database = "connected" <=> outcome[r].value
                    /\ response[r].content.status = "unhealthy" <=> ~outcome[r].value
                    /\ response[r].content.database = "disconnected" <=> ~outcome[r].value
               /\ outcome[r].kind = "raise" <=>
                    (response[r].status = 503 /\ response[r].detail = "Service unavailable")
               /\ response[r].status \in {200, 503}

C9_Witness ==
    \E r \in Reqs :
        /\ Done(r) /\ req[r].endpoint = "health_check"
        /\ outcome[r].kind = "raise"
        /\ response[r].status = 503

\* C10 as stated: a gateway failure is surfaced as 500 "Internal server
\* error" by the path and search endpoints and as 503 "Service
\* unavailable" by GET /health.
C10_HealthFailureIs503 ==
    \A r \in Reqs :
        (Done(r) /\ GatewayFailed(r))
            => IF IsLookup(r)
               THEN response[r].status = 500 /\ response[r].detail = "Internal server error"
               ELSE response[r].status = 503 /\ response[r].detail = "Service unavailable"

\* C10 amended: a gateway failure is surfaced as 500 "Internal server
\* error" by the path and search endpoints, and by GET /health as 200 with
\* status "unhealthy" and database "disconnected".
C10_HealthFailureIsUnhealthy ==
    \A r \in Reqs :
        (Done(r) /\ GatewayFailed(r))
            => IF IsLookup(r)
               THEN response[r].status = 500 /\ response[r].detail = "Internal server error"
               ELSE /\ response[r].status = 200
                    /\ response[r].content.status = "unhealthy"
                    /\ response[r].content.database = "disconnected"

C10_Witness ==
    \E r \in Reqs :
        /\ Done(r) /\ req[r].endpoint = "health_check"
        /\ \E i \in DOMAIN log[r] : log[r][i].op = "connect" /\ ~log[r][i].ok
        /\ response[r].status = 200

\* ---------------------------------------------------------------- gateway
\* Positions of the events of a log that satisfy Test.
Where(lg, Test(_)) == { i \in DOMAIN lg : Test(lg[i]) }

Opened(lg) == Where(lg, LAMBDA e : e.op = "connect" /\ e.ok)

Closed(lg) == Where(lg, LAMBDA e : e.op = "close")

\* The gateway calls of a log, by the connect each one starts with.
Calls(lg) == SelectSeq(lg, LAMBDA e : e.op = "connect")

\* The connection opened at position i of lg is closed at a later position,
\* with nothing but its own statement, fetch and rollback in between.
ClosedAfter(lg, i) ==
    \E j \in DOMAIN lg :
        /\ j > i /\ lg[j].op = "close" /\ lg[j].conn = lg[i].conn
        /\ \A k \in (i + 1)..(j - 1) :
             lg[k].conn = lg[i].conn /\ lg[k].op \in {"execute", "fetchall", "rollback"}

\* C11: every gateway call opens a fresh connection and has closed it when
\* it returns or raises: no manager holds a connection, every connection
\* opened was closed within its call, and as many were opened as closed.
C11_ConnectionsClosed ==
    /\ \A m \in Reqs : connection[m] = NoConn
    /\ \A r \in Reqs :
        /\ Cardinality(Opened(log[r])) = Cardinality(Closed(log[r]))
        /\ \A i \in Opened(log[r]) : ClosedAfter(log[r], i)
        /\ \A i, j \in Opened(log[r]) : i /= j => log[r][i].conn /= log[r][j].conn

C11_Witness ==
    \E r \in Reqs :
        /\ Done(r)
        /\ \E i \in DOMAIN log[r] : log[r][i].op = "fetchall" /\ ~log[r][i].ok
        /\ Cardinality(Opened(log[r])) = 2
        /\ Cardinality(Closed(log[r])) = 2

\* C12: a transport error is raised to the caller, never answered with
\* rows; an error on an established connection is followed by exactly one
\* rollback and exactly one close of that connection, a failed connect by
\* neither, and no connection is left open.
C12_ErrorRollsBackAndCloses ==
    \A r \in Reqs :
        LET lg == log[r]
        IN  /\ local[r].workout_service = NoService \/ connection[local[r].workout_service] = NoConn
            /\ \A i \in DOMAIN lg :
                 /\ (lg[i].op = "connect" /\ ~lg[i].ok) =>
                        /\ i = Len(lg) \/ lg[i + 1].op = "connect"
                        /\ ~Fetched(r, lg[i].sql)
                 /\ (lg[i].op \in {"execute", "fetchall"} /\ ~lg[i].ok) =>
                        /\ Len(lg) >= i + 2
                        /\ lg[i + 1].op = "rollback" /\ lg[i + 1].conn = lg[i].conn
                        /\ lg[i + 2].op = "close" /\ lg[i + 2].conn = lg[i].conn
                        /\ Cardinality(Where(lg, LAMBDA e :
                              e.op = "rollback" /\ e.conn = lg[i].conn)) = 1
                        /\ Cardinality(Where(lg, LAMBDA e :
                              e.op = "close" /\ e.conn = lg[i].conn)) = 1
                        /\ ~Fetched(r, lg[i].sql)
                 /\ lg[i].op = "rollback" =>
                        (i > 1 /\ lg[i - 1].op \in {"execute", "fetchall"} /\ ~lg[i - 1].ok)
            /\ (Done(r) /\ GatewayFailed(r) /\ IsLookup(r)) =>
                 (outcome[r].kind = "raise" /\ outcome[r].exc \in ExcContents \cup {RollbackExc})
            /\ (Done(r) /\ GatewayFailed(r) /\ req[r].endpoint = "health_check") =>
                 local[r].result = None

C12_Witness ==
    \E r \in Reqs :
        /\ Done(r) /\ IsLookup(r)
        /\ Len(log[r]) = 8
        /\ log[r][5].op = "connect" /\ log[r][6].op = "execute" /\ ~log[r][6].ok
        /\ log[r][7].op = "rollback" /\ log[r][8].op = "close"
        /\ outcome[r].kind = "raise"

\* C13: a search body with a field out of bounds is rejected with 422
\* before the handler runs: no date is built and no lookup is made.
C13_SearchEnvelopeRejects ==
    \A r \in Reqs :
        (req[r].endpoint = "search_workout" /\ OutOfBounds(req[r]))
            => /\ Done(r)
               /\ response[r].status = 422
               /\ response[r].content = None
               /\ local[r].workout_date = None
               /\ outcome[r] = NoOutcome
               /\ log[r] = << >>

C13_Witness ==
    \E r \in Reqs :
        /\ req[r].endpoint = "search_workout" /\ Done(r)
        /\ req[r].year = 1999 /\ req[r].month = 1 /\ req[r].day = 15
        /\ response[r].status = 422

\* C14: no retries: within a request every statement is tried at most once
\* (one connect, one execute), and after the first failure no connection
\* is opened and no statement is executed.
C14_NoRetries ==
    \A r \in Reqs :
        LET lg == log[r]
        IN  /\ \A i, j \in DOMAIN lg :
                 (i /= j /\ lg[i].op = lg[j].op /\ lg[i].op \in {"connect", "execute"})
                    => lg[i].sql /= lg[j].sql
            /\ \A i, j \in DOMAIN lg :
                 (~lg[i].ok /\ j > i) => lg[j].op \in {"rollback", "close"}

C14_Witness ==
    \E r \in Reqs :
        /\ Done(r) /\ IsLookup(r)
        /\ Len(log[r]) = 1
        /\ log[r][1].op = "connect" /\ ~log[r][1].ok
        /\ response[r].status = 500

\* The requested key of a lookup request.
RequestedKey(r) ==
    [workout_date |-> [year |-> req[r].year, month |-> req[r].month, day |-> req[r].day],
     url_slug |-> req[r].url_slug]

\* Every call of request r is keyed by the requested key and runs on a
\* connection of its own, opened after the one before was closed.
OneConnectionAtATime(r) ==
    LET lg == log[r]
    IN  /\ \A i \in DOMAIN lg : lg[i].params = RequestedKey(r)
        /\ \A i \in Opened(lg) : ClosedAfter(lg, i)
        /\ \A i, j \in Opened(lg) : i /= j => lg[i].conn /= lg[j].conn

Sqls(lg) == [i \in DOMAIN Calls(lg) |-> Calls(lg)[i].sql]

HeaderRowFound(r) ==
    /\ IsLookup(r) /\ Fetched(r, "workout_query")
    /\ FetchedRows(r, "workout_query") /= << >>

C17_ReadOnly ==
    [][/\ store' = store
       /\ \A r \in Reqs : \A i \in DOMAIN log'[r] : log'[r][i].verb = "SELECT"]_vars

C17_Witness ==
    \E r \in Reqs :
        /\ Done(r)
        /\ \E i \in DOMAIN log[r] : log[r][i].op = "rollback"
        /\ \E i \in DOMAIN log[r] : log[r][i].sql = "aos_query" /\ log[r][i].op = "execute" /\ log[r][i].ok
        /\ store.workout_aos /= << >>

\* C19: execute_single gives the first row of what execute_query fetched
\* for the same statement, None when it fetched no row, and makes exactly
\* one execute_query call.
C19_SingleIsFirstRow ==
    \A r \in Reqs :
        /\ Fetched(r, "workout_query") =>
             /\ local[r].workout_data =
                    IF FetchedRows(r, "workout_query") = << >> THEN None
                    ELSE FetchedRows(r, "workout_query")[1]
             /\ Cardinality(Where(log[r], LAMBDA e : e.sql = "workout_query" /\ e.op = "connect")) = 1
        /\ (Done(r) /\ req[r].endpoint = "health_check") =>
             /\ local[r].result =
                    IF ~Fetched(r, "SELECT 1 as status")
                        \/ FetchedRows(r, "SELECT 1 as status") = << >>
                    THEN None
                    ELSE FetchedRows(r, "SELECT 1 as status")[1]
             /\ Len(Calls(log[r])) = 1

C19_Witness ==
    \E r \in Reqs :
        /\ Done(r) /\ req[r].endpoint = "health_check"
        /\ Fetched(r, "SELECT 1 as status")
        /\ FetchedRows(r, "SELECT 1 as status") = << [status |-> 0], [status |-> 1] >>
        /\ local[r].result = [status |-> 0]

\* ------------------------------------------------------------- concurrency
\* Everything request r owns.
ReqState(r) == << pc[r], req[r], local[r], response[r], log[r], outcome[r] >>

\* The connections request r opened.
OpenedBy(r) == { log[r][i].conn : i \in Opened(log[r]) }

\* C16: under every interleaving each request has its own manager and its
\* own connections: requests in flight hold different managers, every
\* statement, rollback and close of a request is on a connection that
\* request opened, no connection is opened by two requests, and a step of
\* one request leaves the other requests and the settings as they were.
C16_RequestsIsolated ==
    [][/\ \A r1, r2 \in Reqs :
            (r1 /= r2 /\ local'[r1].workout_service /= NoService)
                => /\ local'[r1].workout_service /= local'[r2].workout_service
                   /\ OpenedBy(r1)' \cap OpenedBy(r2)' = {}
       /\ \A r \in Reqs : \A i \in DOMAIN log'[r] :
            log'[r][i].op \in {"execute", "fetchall", "rollback", "close"}
                => log'[r][i].conn \in OpenedBy(r)'
       /\ \A r1, r2 \in Reqs :
            (r1 /= r2 /\ ReqState(r1)' /= ReqState(r1))
                => /\ ReqState(r2)' = ReqState(r2)
                   /\ process' = process
                   /\ \A m \in Reqs \ {local[r1].workout_service, local'[r1].workout_service} :
                         connection'[m] = connection[m]]_vars

C16_Witness ==
    /\ pc[1] = "aos" /\ pc[2] = "pax"
    /\ req[1] = req[2]
    /\ Cardinality(OpenedBy(1)) = 2 /\ Cardinality(OpenedBy(2)) = 1
    /\ local[1].workout_service /= local[2].workout_service

UniqueKeys(st) ==
    \A i, j \in DOMAIN st.workouts :
        (st.workouts[i].workout_date = st.workouts[j].workout_date
            /\ st.workouts[i].url_slug = st.workouts[j].url_slug) => i = j

\* C18: against a store with unique (date, slug), two executions of the
\* same path or search request in which the gateway does not fail end
\* with the same status code and the same envelope, however their steps
\* interleave.
C18_Idempotent ==
    \A r1, r2 \in Reqs :
        (/\ UniqueKeys(store)
         /\ IsLookup(r1) /\ req[r1] = req[r2]
         /\ Done(r1) /\ Done(r2)
         /\ ~GatewayFailed(r1) /\ ~GatewayFailed(r2))
            => response[r1] = response[r2]

C18_Witness ==
    /\ UniqueKeys(store)
    /\ req[1].endpoint = "search_workout" /\ req[1] = req[2]
    /\ Done(1) /\ Done(2)
    /\ ~GatewayFailed(1) /\ ~GatewayFailed(2)
    /\ Len(Calls(log[1])) = 3 /\ Len(Calls(log[2])) = 3
    /\ response[1].status = 200 /\ response[1].content.success
    /\ response[2] = response[1]

\* C20: the settings are constructed at most once, by the first
\* get_settings call (made when the application is created); every later
\* call leaves that value in place, whatever the environment says by then,
\* and no step of a request handler touches it.
C20_SettingsOnce ==
    [][/\ process'.inits <= 1
       /\ (process.phase = "import" /\ process'.phase /= "import")
            => (process'.settings = Settings(process.environ) /\ process'.inits = 1)
       /\ process.settings /= NoSettings => process'.settings = process.settings
       /\ (\E r \in Reqs : ReqState(r)' /= ReqState(r))
            => (process'.settings = process.settings /\ process'.inits = process.inits)]_vars

C20_Witness ==
    /\ process.phase = "serving"
    /\ process.inits = 1
    /\ process.settings = Settings("INFO")
    /\ process.environ = "DEBUG"
    /\ \E r \in Reqs : Done(r) /\ response[r].status = 200

\* ------------------------------------------------------- dependent failures
\* A gateway call of request r for statement sql failed.
StatementFailed(r, sql) ==
    \E i \in DOMAIN log[r] : log[r][i].sql = sql /\ ~log[r][i].ok

\* C21: when the header row exists and the participant or the
\* activity-segment statement fails, the lookup raises and returns no
\* record, partial or not; after a failed participant statement the
\* activity-segment statement is not issued; both endpoints answer 500,
\* never 200.
C21_DependentFailureRaises ==
    \A r \in Reqs :
        /\ (HeaderRowFound(r) /\ StatementFailed(r, "pax_query"))
              => ~Issued(r, "aos_query")
        /\ (HeaderRowFound(r)
              /\ (StatementFailed(r, "pax_query") \/ StatementFailed(r, "aos_query")))
              => /\ Done(r)
                 /\ outcome[r].kind = "raise"
                 /\ outcome[r].value = None
                 /\ response[r].status = 500
                 /\ response[r].content = None

C21_Witness ==
    \E r \in Reqs :
        /\ Done(r) /\ HeaderRowFound(r)
        /\ req[r].endpoint = "search_workout"
        /\ Fetched(r, "pax_query") /\ FetchedRows(r, "pax_query") /= << >>
        /\ StatementFailed(r, "aos_query")
        /\ response[r].status = 500

\* ------------------------------------------------------------ path endpoint
\* The header calls of request r: one for every call of
\* get_workout_by_date_and_slug.
LookupCalls(r) == SelectSeq(Calls(log[r]), LAMBDA e : e.sql = "workout_query")

\* C22: the path endpoint answers 400 exactly when the triple is out of
\* bounds or is not a date of the Gregorian calendar; for every real date
\* with year in 2000..9999 the lookup is called once, with that date and
\* the given slug.
C22_PathBadRequestIff ==
    \A r \in Reqs :
        req[r].endpoint = "get_workout" =>
            /\ Done(r) =>
                 (response[r].status = 400 <=> (OutOfBounds(req[r]) \/ ~RealDate(req[r])))
            /\ (~OutOfBounds(req[r]) /\ RealDate(req[r])) =>
                 /\ local[r].workout_date = RequestedKey(r).workout_date
                 /\ local[r].url_slug = req[r].url_slug
                 /\ Len(LookupCalls(r)) <= 1
                 /\ \A i \in DOMAIN LookupCalls(r) :
                        LookupCalls(r)[i].params = RequestedKey(r)
                 /\ Done(r) => (Len(LookupCalls(r)) = 1 /\ outcome[r] /= NoOutcome)

C22_Witness ==
    \E r \in Reqs :
        /\ Done(r) /\ req[r].endpoint = "get_workout"
        /\ req[r].year = 2024 /\ req[r].month = 2 /\ req[r].day = 29
        /\ response[r].status /= 400
        /\ Len(LookupCalls(r)) = 1

\* ------------------------------------------------------------------ record
\* Request r's lookup returned a record.
RecordReturned(r) ==
    /\ Done(r) /\ IsLookup(r)
    /\ outcome[r].kind = "return" /\ outcome[r].value /= None

\* C23: a record returned by the lookup carries the workout_date and the
\* url_slug of the fetched header row, which are the requested date and
\* slug, and its leader's name and display name are those of that row.
C23_RecordFromHeaderRow ==
    \A r \in Reqs :
        RecordReturned(r) =>
            /\ HeaderRowFound(r)
            /\ LET w == outcome[r].value
                   h == FetchedRows(r, "workout_query")[1]
               IN  /\ w.workout_date = h.workout_date
                   /\ w.url_slug = h.url_slug
                   /\ w.workout_date = [year |-> req[r].year, month |-> req[r].month,
                                        day |-> req[r].day]
                   /\ w.url_slug = req[r].url_slug
                   /\ w.qic.name = h.qic_name
                   /\ w.qic.f3_name = h.qic_f3_name

C23_Witness ==
    \E r \in Reqs :
        /\ RecordReturned(r)
        /\ req[r].year = 2024 /\ req[r].month = 2 /\ req[r].day = 29
        /\ outcome[r].value.workout_date = D2
        /\ outcome[r].value.qic = [name |-> "Splinter", f3_name |-> "Master Splinter"]
        /\ outcome[r].value.url_slug = "test-workout"

\* The headers of the store that carry the key request r asked for.
SharingKey(r) ==
    { i \in DOMAIN store.workouts :
        /\ store.workouts[i].workout_date = RequestedKey(r).workout_date
        /\ store.workouts[i].url_slug = RequestedKey(r).url_slug }

\* The join rows of tbl whose header carries the key request r asked for.
JoinedToKey(r, tbl) ==
    { j \in DOMAIN tbl :
        \E i \in SharingKey(r) : tbl[j].workout_id = store.workouts[i].id }

\* C24: when several headers share the requested (date, slug), the leader
\* of the returned record is that of one of them, and its pax and aos
\* sequences hold the join rows of every one of them, each as often as the
\* table holds it, not only those of the header the leader came from.
C24_DependentsOfEveryMatch ==
    \A r \in Reqs :
        RecordReturned(r) =>
            LET w  == outcome[r].value
                pj == JoinedToKey(r, store.workout_pax)
                aj == JoinedToKey(r, store.workout_aos)
                PaxOf(j) == [name |-> store.workout_pax[j].pax_name,
                             f3_name |-> store.workout_pax[j].f3_name]
                AosOf(j) == [name |-> store.workout_aos[j].aos_name,
                             description |-> store.workout_aos[j].description]
            IN  /\ \E i \in SharingKey(r) :
                     w.qic = [name |-> store.workouts[i].qic_name,
                              f3_name |-> store.workouts[i].qic_f3_name]
                /\ Len(w.pax) = Cardinality(pj)
                /\ \A j \in pj :
                     Cardinality({k \in DOMAIN w.pax : w.pax[k] = PaxOf(j)})
                        = Cardinality({k \in pj : PaxOf(k) = PaxOf(j)})
                /\ Len(w.aos) = Cardinality(aj)
                /\ \A j \in aj :
                     Cardinality({k \in DOMAIN w.aos : w.aos[k] = AosOf(j)})
                        = Cardinality({k \in aj : AosOf(k) = AosOf(j)})

C24_Witness ==
    \E r \in Reqs :
        /\ RecordReturned(r)
        /\ Cardinality(SharingKey(r)) = 2
        /\ outcome[r].value.qic.name = "Ripken"
        /\ \E k \in DOMAIN outcome[r].value.pax :
             outcome[r].value.pax[k] = [name |-> "Leonardo", f3_name |-> "Leo"]
        /\ \E k \in DOMAIN outcome[r].value.aos :
             outcome[r].value.aos[k].name = "The Thang"

====
